---- MODULE Spec2Model ----
\* Windowed inference and event decoding of run/inference.py:
\*   main() = dataloader -> load_model -> batch loop -> concatenate ->
\*            post_process_for_seg -> step correction -> write_csv.
\* Scores are probabilities in percent (0..100); steps are 0-based as in the
\* code, so step i of a sequence s is s[i + 1] here.
EXTENDS Integers, Sequences, FiniteSets, TLC

VARIABLES
    cfg,        \* hydra config: batch_size, hop_length, score_th, weight
    windows,    \* the test dataset, in stream order: [key, logits] per window
    pc,         \* position of main()
    err,        \* which exception ended the run ("" = none)
    batchIdx,   \* number of batches the for-loop has taken from the dataloader
    preds,      \* list of per-batch probability arrays
    keys,       \* flat list of window keys
    predsArr,   \* preds after np.concatenate (line 78)
    sub_df,     \* the event table
    csv,        \* content of submission.csv
    writeCount, \* number of times submission.csv was written
    seq,        \* decoder harness: score sequence s[0..L-1]
    th,         \* decoder harness: threshold of the first decoding
    th2,        \* decoder harness: threshold of the second decoding
    radius,     \* decoder harness: minimum-separation radius r
    events,     \* decoder harness: steps emitted at th, in emission order
    events2,    \* decoder harness: steps emitted at th2
    dpc         \* decoder harness: position

pipeVars == <<cfg, windows, pc, err, batchIdx, preds, keys, predsArr, sub_df, csv, writeCount>>
decVars == <<seq, th, th2, radius, events, events2, dpc>>
vars == <<cfg, windows, pc, err, batchIdx, preds, keys, predsArr, sub_df, csv, writeCount,
          seq, th, th2, radius, events, events2, dpc>>

----------------------------------------------------------------------------
\* Bounds and input sets

MaxWindows == 3
MaxBatch == 2
MaxLen == 5
MaxRadius == 2

SeriesKeys == {1, 2}
HopLengths == {1, 5}
ScoreThs == {50, 150}
WeightStates == {"none", "ok", "missing", "malformed"}

\* logits of one step: <<channel 0, channel 1, channel 2>>
Flat == <<2, -2, -2>>
Peak == <<-2, 2, 2>>
Blocks == {<<Flat, Flat>>, <<Peak, Flat>>, <<Flat, Peak>>}

ScenarioA == <<10, 90, 85, 20, 95>>
ScoreLevels == {10, 85, 90}
Thresholds == {5, 80, 90}

RECURSIVE SeqsUpTo(_, _)
SeqsUpTo(S, n) ==
    IF n = 0 THEN {<<>>}
    ELSE LET shorter == SeqsUpTo(S, n - 1)
         IN shorter \cup {Append(q, x) : q \in {p \in shorter : Len(p) = n - 1}, x \in S}

Range(f) == {f[k] : k \in DOMAIN f}

----------------------------------------------------------------------------
\* EventDecoder: threshold, group candidates within the radius, keep the
\* maximum of each group (smallest index on ties).

ValidThreshold(t) == t >= 0 /\ t <= 100

IsCandidateInverted(score, t) == score <= t
IsCandidate(score, t) == score >= t

SameGroupOffByOne(i, last, r) == i - last < r - 1
SameGroup(i, last, r) == i - last < r

BetterOrEqual(new, old) == new >= old
Better(new, old) == new > old

\* single pass over s: i = next step, last = last candidate seen,
\* best = representative of the open group (-1 = no open group)
RECURSIVE Scan(_, _, _, _, _, _, _)
Scan(s, t, r, i, last, best, acc) ==
    IF i >= Len(s)
    THEN IF best = -1 THEN acc ELSE Append(acc, best)
    ELSE IF ~IsCandidate(s[i + 1], t)
    THEN Scan(s, t, r, i + 1, last, best, acc)
    ELSE IF best # -1 /\ SameGroup(i, last, r)
    THEN Scan(s, t, r, i + 1, i,
              IF Better(s[i + 1], s[best + 1]) THEN i ELSE best, acc)
    ELSE Scan(s, t, r, i + 1, i, i,
              IF best = -1 THEN acc ELSE Append(acc, best))

Decode(s, t, r) == Scan(s, t, r, 0, -1, -1, <<>>)

----------------------------------------------------------------------------
\* post_process_for_seg: per series key, the windows of the key are laid end
\* to end in stream order; each channel of interest is decoded on its own.

DefaultDistance == 2

\* indices of the windows of series `key`, in stream order
SeriesIdx(ks, key) == SelectSeq([k \in 1..Len(ks) |-> k], LAMBDA k : ks[k] = key)

RECURSIVE ChannelSeq(_, _, _)
ChannelSeq(P, idx, c) ==
    IF idx = <<>> THEN <<>>
    ELSE [t \in 1..Len(P[Head(idx)]) |-> P[Head(idx)][t][c]] \o ChannelSeq(P, Tail(idx), c)

Records(ks, P, score_th, r) ==
    UNION {
        LET s == ChannelSeq(P, SeriesIdx(ks, key), c)
        IN {[series_id |-> key, step |-> i, event |-> c, score |-> s[i + 1]] :
                i \in Range(Decode(s, score_th, r))}
        : key \in Range(ks), c \in 1..2}

RowBefore(a, b) ==
    \/ a.series_id < b.series_id
    \/ a.series_id = b.series_id /\ a.step < b.step
    \/ a.series_id = b.series_id /\ a.step = b.step /\ a.event < b.event

RECURSIVE SortRows(_)
SortRows(S) ==
    IF S = {} THEN <<>>
    ELSE LET first == CHOOSE a \in S : \A b \in S \ {a} : RowBefore(a, b)
         IN <<first>> \o SortRows(S \ {first})

post_process_for_seg(ks, P, score_th) == SortRows(Records(ks, P, score_th, DefaultDistance))

----------------------------------------------------------------------------
\* Helpers of main()

\* 100 / (1 + e^-x), rounded
Sigmoid(x) ==
    CASE x = -2 -> 12 [] x = -1 -> 27 [] x = 0 -> 50 [] x = 1 -> 73 [] x = 2 -> 88

\* model(feature_extractor(x))["logits"].sigmoid() for one window
Probabilities(w) == [t \in 1..Len(w.logits) |-> [c \in 1..3 |-> Sigmoid(w.logits[t][c])]]

Min(a, b) == IF a < b THEN a ELSE b

\* DataLoader(shuffle=False, drop_last=False)
NumBatches(n, bs) == (n + bs - 1) \div bs

BatchIdx(b, n, bs) == [k \in 1..(Min(b * bs, n) - (b - 1) * bs) |-> (b - 1) * bs + k]

LoadRaisesNever(weight) == FALSE
LoadRaises(weight) == weight \in {"missing", "malformed"}

AppendFirstKey(ks, key) == Append(ks, key[1])
ExtendKeys(ks, key) == ks \o key

RECURSIVE Concatenate(_)
Concatenate(ps) == IF ps = <<>> THEN <<>> ELSE Head(ps) \o Concatenate(Tail(ps))

SelectChannels(P) == [k \in 1..Len(P) |-> [t \in 1..Len(P[k]) |-> <<P[k][t][2], P[k][t][3]>>]]

CorrectNoShift(step, hop_length) == step * hop_length
CorrectReversed(step, hop_length) == (1 - step) * hop_length
Correct(step, hop_length) == (step - 1) * hop_length

----------------------------------------------------------------------------
\* main()

Raise(kind) ==
    /\ pc' = "error"
    /\ err' = kind

get_test_dataloader ==
    /\ pc = "start"
    /\ pc' = "load"
    /\ UNCHANGED <<cfg, windows, err, batchIdx, preds, keys, predsArr, sub_df, csv, writeCount>>
    /\ UNCHANGED decVars

load_model ==
    /\ pc = "load"
    /\ IF LoadRaises(cfg.weight)
       THEN Raise("weight")
       ELSE pc' = "loop" /\ err' = err
    /\ UNCHANGED <<cfg, windows, batchIdx, preds, keys, predsArr, sub_df, csv, writeCount>>
    /\ UNCHANGED decVars

InLoop ==
    /\ pc = "loop"
    /\ batchIdx < NumBatches(Len(windows), cfg.batch_size)

InferBatch ==
    /\ InLoop
    /\ LET idx == BatchIdx(batchIdx + 1, Len(windows), cfg.batch_size)
           pred == [k \in 1..Len(idx) |-> Probabilities(windows[idx[k]])]
           key == [k \in 1..Len(idx) |-> windows[idx[k]].key]
       IN /\ preds' = Append(preds, pred)
          /\ keys' = ExtendKeys(keys, key)
    /\ batchIdx' = batchIdx + 1
    /\ UNCHANGED <<cfg, windows, pc, err, predsArr, sub_df, csv, writeCount>>
    /\ UNCHANGED decVars

TransformSkip ==
    /\ InLoop
    /\ batchIdx' = batchIdx + 1
    /\ UNCHANGED <<cfg, windows, pc, err, preds, keys, predsArr, sub_df, csv, writeCount>>
    /\ UNCHANGED decVars

TransformFail ==
    /\ InLoop
    /\ Raise("transform")
    /\ UNCHANGED <<cfg, windows, batchIdx, preds, keys, predsArr, sub_df, csv, writeCount>>
    /\ UNCHANGED decVars

ModelFail ==
    /\ InLoop
    /\ Raise("model")
    /\ UNCHANGED <<cfg, windows, batchIdx, preds, keys, predsArr, sub_df, csv, writeCount>>
    /\ UNCHANGED decVars

ConcatenatePreds ==
    /\ pc = "loop"
    /\ batchIdx = NumBatches(Len(windows), cfg.batch_size)
    /\ IF preds = <<>>
       THEN Raise("concatenate") /\ predsArr' = predsArr
       ELSE pc' = "post" /\ err' = err /\ predsArr' = Concatenate(preds)
    /\ UNCHANGED <<cfg, windows, batchIdx, preds, keys, sub_df, csv, writeCount>>
    /\ UNCHANGED decVars

PostProcess ==
    /\ pc = "post"
    /\ IF ValidThreshold(cfg.score_th)
       THEN /\ sub_df' = post_process_for_seg(keys, SelectChannels(predsArr), cfg.score_th)
            /\ pc' = "correct"
            /\ err' = err
       ELSE Raise("validation") /\ sub_df' = sub_df
    /\ UNCHANGED <<cfg, windows, batchIdx, preds, keys, predsArr, csv, writeCount>>
    /\ UNCHANGED decVars

CorrectStep ==
    /\ pc = "correct"
    /\ sub_df' = [k \in 1..Len(sub_df) |->
                    [sub_df[k] EXCEPT !.step = Correct(@, cfg.hop_length)]]
    /\ pc' = "write"
    /\ UNCHANGED <<cfg, windows, err, batchIdx, preds, keys, predsArr, csv, writeCount>>
    /\ UNCHANGED decVars

WriteCsv ==
    /\ pc = "write"
    /\ csv' = sub_df
    /\ writeCount' = writeCount + 1
    /\ pc' = "done"
    /\ UNCHANGED <<cfg, windows, err, batchIdx, preds, keys, predsArr, sub_df>>
    /\ UNCHANGED decVars

Configs ==
    [batch_size : 1..MaxBatch, hop_length : HopLengths, score_th : ScoreThs,
     weight : WeightStates]

Datasets == SeqsUpTo([key : SeriesKeys, logits : Blocks], MaxWindows)

DecoderIdle ==
    /\ seq = <<>>
    /\ th = 0
    /\ th2 = 0
    /\ radius = 1
    /\ events = <<>>
    /\ events2 = <<>>
    /\ dpc = "off"

Init ==
    /\ cfg \in Configs
    /\ windows \in Datasets
    /\ pc = "start"
    /\ err = ""
    /\ batchIdx = 0
    /\ preds = <<>>
    /\ keys = <<>>
    /\ predsArr = <<>>
    /\ sub_df = <<>>
    /\ csv = <<>>
    /\ writeCount = 0
    /\ DecoderIdle

Next ==
    \/ get_test_dataloader
    \/ load_model
    \/ InferBatch
    \/ TransformFail
    \/ ModelFail
    \/ ConcatenatePreds
    \/ PostProcess
    \/ CorrectStep
    \/ WriteCsv

Spec == Init /\ [][Next]_vars

----------------------------------------------------------------------------
\* Decoder harness: one score sequence decoded at a threshold, then decoded
\* again at a second threshold.

Sequences == {ScenarioA} \cup SeqsUpTo(ScoreLevels, MaxLen)

PipelineIdle ==
    /\ cfg = [batch_size |-> 1, hop_length |-> 1, score_th |-> 50, weight |-> "none"]
    /\ windows = <<>>
    /\ pc = "off"
    /\ err = ""
    /\ batchIdx = 0
    /\ preds = <<>>
    /\ keys = <<>>
    /\ predsArr = <<>>
    /\ sub_df = <<>>
    /\ csv = <<>>
    /\ writeCount = 0

InitDecode ==
    /\ seq \in Sequences
    /\ th \in Thresholds
    /\ th2 = th
    /\ radius \in 1..MaxRadius
    /\ events = <<>>
    /\ events2 = <<>>
    /\ dpc = "first"
    /\ PipelineIdle

DecodeFirst ==
    /\ dpc = "first"
    /\ events' = Decode(seq, th, radius)
    /\ dpc' = "second"
    /\ UNCHANGED <<seq, th, th2, radius, events2>>
    /\ UNCHANGED pipeVars

DecodeSecond ==
    /\ dpc = "second"
    /\ \E t \in Thresholds :
        /\ th2' = t
        /\ events2' = Decode(seq, t, radius)
    /\ dpc' = "done"
    /\ UNCHANGED <<seq, th, radius, events>>
    /\ UNCHANGED pipeVars

NextDecode ==
    \/ DecodeFirst
    \/ DecodeSecond

SpecDecode == InitDecode /\ [][NextDecode]_vars

----------------------------------------------------------------------------
\* Properties of the pipeline (specification Spec)

\* C1: the step correction maps every row's step i to (i - 1) * hop_length
\* and leaves series key, event label and score of the row unchanged; the
\* table written is the corrected table.
C1_StepCorrection ==
    [][/\ (pc = "correct" /\ pc' = "write") =>
            /\ Len(sub_df') = Len(sub_df)
            /\ \A k \in 1..Len(sub_df) :
                /\ sub_df'[k].step = (sub_df[k].step - 1) * cfg.hop_length
                /\ sub_df'[k].series_id = sub_df[k].series_id
                /\ sub_df'[k].event = sub_df[k].event
                /\ sub_df'[k].score = sub_df[k].score
       /\ (pc = "write" /\ pc' = "done") => csv' = sub_df]_vars

\* hop length 5, aggregated step 3: a written row has step 10
C1_Witness ==
    /\ pc = "done"
    /\ cfg.hop_length = 5
    /\ \E k \in 1..Len(csv) : csv[k].step = 10

\* C2: every row of the written table has a step >= 0.
C2_NonNegativeSteps == \A k \in 1..Len(csv) : csv[k].step >= 0

\* C6: with a score threshold outside [0,1] no batch is ever put through the
\* feature transform and the model, and nothing is written.
C6_ValidationBeforeInference ==
    (cfg.score_th < 0 \/ cfg.score_th > 100) =>
        (batchIdx = 0 /\ preds = <<>> /\ writeCount = 0)

\* C7: with a missing or malformed weight artifact no batch is processed and
\* nothing is written; and whenever a batch has been processed, load_model
\* has returned.
C7_FailFastWeights ==
    /\ cfg.weight \in {"missing", "malformed"} =>
            /\ batchIdx = 0
            /\ preds = <<>>
            /\ writeCount = 0
            /\ pc \in {"start", "load", "error"}
            /\ pc = "error" => err = "weight"
    /\ (batchIdx > 0 \/ preds # <<>>) =>
            /\ pc \notin {"start", "load"}
            /\ err # "weight"

C7_Witness ==
    /\ pc = "error"
    /\ err = "weight"
    /\ cfg.weight = "malformed"
    /\ Len(windows) > 0
    /\ batchIdx = 0

\* C8: the table is written at most once, only after every window has been
\* inferred and decoding has ended; a run in which the transform, the model
\* or the decoder failed ends in the error state with nothing written.
C8_NoPartialSubmission ==
    /\ writeCount <= 1
    /\ writeCount = 1 =>
            /\ pc = "done"
            /\ err = ""
            /\ batchIdx = NumBatches(Len(windows), cfg.batch_size)
            /\ Len(keys) = Len(windows)
            /\ Len(predsArr) = Len(windows)
    /\ err # "" => (pc = "error" /\ writeCount = 0 /\ csv = <<>>)
    /\ pc = "error" => err # ""

C8_Witness ==
    /\ pc = "error"
    /\ err = "transform"
    /\ batchIdx >= 1
    /\ batchIdx < NumBatches(Len(windows), cfg.batch_size)
    /\ writeCount = 0

RECURSIVE Flatten(_)
Flatten(ps) == IF Len(ps) = 0 THEN <<>> ELSE Flatten(SubSeq(ps, 1, Len(ps) - 1)) \o ps[Len(ps)]

\* C10: after any number of batches there are as many keys as probability
\* blocks, the k-th of each belongs to the k-th window of the stream, and
\* after the loop there is one pair per window.
C10_KeyPredAlignment ==
    LET flat == Flatten(preds)
    IN /\ Len(keys) = Len(flat)
       /\ Len(keys) = Min(batchIdx * cfg.batch_size, Len(windows))
       /\ \A k \in 1..Len(keys) :
            /\ keys[k] = windows[k].key
            /\ flat[k] = Probabilities(windows[k])
       /\ pc \in {"post", "correct", "write", "done"} =>
            /\ Len(keys) = Len(windows)
            /\ predsArr = flat

\* three windows in batches of two: the last batch is short
C10_Witness ==
    /\ pc = "post"
    /\ Len(windows) = 3
    /\ cfg.batch_size = 2
    /\ Len(preds) = 2
    /\ Len(preds[2]) = 1
    /\ Len(keys) = 3

----------------------------------------------------------------------------
\* Properties of the decoder (specification SpecDecode)

CandSet(s, t) == {i \in 0..(Len(s) - 1) : s[i + 1] >= t}

\* a and b are joined by candidates each less than r after the one before
Chained(s, t, r, a, b) ==
    LET lo == Min(a, b)
        hi == IF a < b THEN b ELSE a
    IN \A c \in CandSet(s, t) :
          (lo <= c /\ c < hi) => \E d \in CandSet(s, t) : c < d /\ d - c < r

GroupOf(s, t, r, a) == {b \in CandSet(s, t) : Chained(s, t, r, a, b)}

Representative(s, G) ==
    CHOOSE i \in G : \A j \in G : s[j + 1] < s[i + 1] \/ (s[j + 1] = s[i + 1] /\ i <= j)

Expected(s, t, r) == {Representative(s, GroupOf(s, t, r, a)) : a \in CandSet(s, t)}

\* C3: the emitted steps are strictly increasing and consecutive ones are at
\* least r apart.
C3_MinimumSeparation ==
    /\ dpc # "first" =>
            \A k \in 1..(Len(events) - 1) :
                events[k] < events[k + 1] /\ events[k + 1] - events[k] >= radius
    /\ dpc = "done" =>
            \A k \in 1..(Len(events2) - 1) :
                events2[k] < events2[k + 1] /\ events2[k + 1] - events2[k] >= radius

\* two events exactly r apart, from more candidates than events
C3_Witness ==
    /\ dpc = "second"
    /\ radius = 2
    /\ Len(events) >= 2
    /\ events[2] - events[1] = 2
    /\ Cardinality(CandSet(seq, th)) > Len(events)

\* C4: one event per group of chained candidates, at the group's maximum
\* score, the smallest index on ties; scenario A gives the steps {1, 4}.
C4_RepresentativeSelection ==
    dpc # "first" =>
        /\ Range(events) = Expected(seq, th, radius)
        /\ Len(events) = Cardinality(Expected(seq, th, radius))
        /\ (seq = ScenarioA /\ th = 80 /\ radius = 2) => Range(events) = {1, 4}

C4_Witness ==
    /\ dpc = "second"
    /\ seq = ScenarioA
    /\ th = 80
    /\ radius = 2
    /\ events = <<1, 4>>

====
